---- MODULE Spec2Model ----
(***************************************************************************)
(* Model of the viewer-connection manager of src/hooks/useWebRTC.ts: the   *)
(* process-wide connection store entry of one stream key, the hook         *)
(* instances (UI consumers) that mount on that key, and the browser        *)
(* objects the hook drives: signaling WebSockets, RTCPeerConnections,      *)
(* setTimeout timers and the heartbeat setInterval.                        *)
(*                                                                         *)
(* Every callback of the hook is a closure over (hook instance, config of  *)
(* the render that created it); its refs and its isMountedRef are those of *)
(* the instance.  Browser objects therefore record the instance and the    *)
(* config of the closure whose handlers were attached to them.             *)
(***************************************************************************)
EXTENDS Integers, Sequences, FiniteSets, TLC

\* ---- bounds of the model ----
MaxInst == 2      \* hook instances that are ever mounted on the key
MaxSock == 3      \* WebSocket objects ever created
MaxNotifySock == 3    \* WebSocket objects of websocketService not yet disposed of
MaxNotifyTimers == 3  \* setTimeout handles of websocketService in use
MaxPc == 3        \* RTCPeerConnection objects ever created
MaxTimers == 2    \* setTimeout callbacks pending at one time
MaxBeat == 2      \* setInterval heartbeats ever created
MaxTasks == 2     \* offer negotiations (async handleSignalingMessage) in flight
MaxCand == 2      \* local ICE candidates ever generated
MaxWire == 3      \* signaling messages ever sent

\* ---- program constants ----
maxReconnectAttempts == 5
reconnectDelay == 3000
notifyMaxReconnectAttempts == 5   \* WebSocketService.maxReconnectAttempts
notifyReconnectDelay == 3000      \* WebSocketService.reconnectDelay
ReconnectSettleDelay == 500
FailedDebounce == 2000
DisconnectedDebounce == 3000

Inst == 1..MaxInst
SockId == 1..MaxSock
NotifySockId == 1..MaxNotifySock
NotifyTimerId == 1..MaxNotifyTimers

\* new WebSocketService(): the field initialisers
NewService ==
    [ws |-> 0, reconnectAttempts |-> 0, reconnectTimer |-> 0, isIntentionallyClosed |-> FALSE]

\* NotificationProvider before its first effect, and after an unmount: the
\* useState initial values
NewProvider == [mounted |-> FALSE, isConnected |-> FALSE, error |-> "null"]
PcId == 1..MaxPc
BeatId == 1..MaxBeat
ArrId == 1..(MaxInst + 1)
Cfg == {"c1", "c2"}
Peers == {"b1", "b2"}

\* "c0" is a config object that came without a viewer_id
viewer_id(c) == IF c = "c1" THEN "v1" ELSE IF c = "c2" THEN "v2" ELSE "none"
signaling_url(c) == IF c = "c1" THEN "ws://s1" ELSE "ws://s2"

\* what a camera record of the backend carries as its WebRTC config
RawCfg == Cfg \cup {"c0", "none"}

\* CameraDetailPage: the config is passed to the hook only when it has a
\* signaling_url, a viewer_id and ice_servers
isValidCameraConfig(raw) == raw # "none" /\ signaling_url(raw) # "none" /\ viewer_id(raw) # "none"

CameraDetailConfig(raw) == IF isValidCameraConfig(raw) THEN raw ELSE "none"

\* CameraCard: the config is passed to the hook whenever there is one
CameraCardConfig(raw) == IF raw # "none" THEN raw ELSE "none"

VARIABLES
    store,         \* the connectionStore entry of the stream key
    isPersistent,  \* !!cameraId of the consumers of this key
    hook,          \* per hook instance: props, isMountedRef, the refs, React state
    socks,         \* WebSocket objects
    pcs,           \* RTCPeerConnection objects
    timers,        \* pending setTimeout callbacks, in scheduling order
    beats,         \* setInterval heartbeats
    arrays,        \* the array objects used as localCandidateQueue
    tasks,         \* offer negotiations suspended at an await
    wire,          \* messages sent with ws.send, in order
    cands,         \* the local ICE candidates generated so far: for each, was it buffered
    last,          \* the operation that produced the current state
    service,       \* the fields of the websocketService singleton
    notifySocks,   \* the WebSocket objects websocketService created
    notifyTimers,  \* the pending setTimeout handles of websocketService
    provider       \* NotificationProvider: is it mounted, its React state

hookVars == <<store, isPersistent, hook, socks, pcs, timers, beats, arrays, tasks, wire, cands>>
notifyVars == <<service, notifySocks, notifyTimers, provider>>
vars == <<store, isPersistent, hook, socks, pcs, timers, beats, arrays, tasks, wire, cands, last,
          service, notifySocks, notifyTimers, provider>>

\* Fields that record history rather than program state:
\*   pcs[p].fl   how often session p reported 'failed' within one debounce delay
\*   pcs[p].rc   how often a debounce timer of session p called reconnect()
\*   wire[x].re  for an answer, the sender of the offer it was created for
\*   wire[x].pc  for a candidate, the session that generated it
\*   cands[n]    whether local candidate n was put on the queue
\*   hook[i].initial  what consumer i held when its subscribe effect returned
\*   last        the callback that ran last, the object it ran on, its argument
\*   timers[n].orphan  whether the entry was torn down (cleanup() of a
\*               non-persistent entry, dispose-all) after timer n was set
\* Time is abstracted: lastPongOld stands for Date.now() - lastPongTime > 30000,
\* and a timer carries its delay so that timers expire in a possible order.
\* A function of the hook is written once as <name>As and used as <name>.

\* The mutable world the callbacks act on, threaded through the operators
\* that model the hook's functions.  ovf is set when a step would exceed a
\* bound of the model; such a step is not taken (Commit).  thrown is set
\* when a subscriber's callback raises: the exception leaves the handler, and
\* only a handler whose last statement raised is followed (Track).
Cur ==
    [store |-> store, hook |-> hook, socks |-> socks, pcs |-> pcs,
     timers |-> timers, beats |-> beats, arrays |-> arrays, tasks |-> tasks,
     wire |-> wire, ovf |-> FALSE, thrown |-> FALSE]

Min(S) == CHOOSE x \in S : \A y \in S : x <= y

SeqRange(seq) == {seq[n] : n \in 1..Len(seq)}

UnusedSock == [rs |-> "unused", inst |-> 0, cfg |-> "none"]
UnusedPc == [cs |-> "unused", inst |-> 0, cfg |-> "none", neg |-> FALSE, fl |-> 0, rc |-> 0]
UnusedBeat == [active |-> FALSE, used |-> FALSE, inst |-> 0, cfg |-> "none"]

\* Garbage collection of the runtime: an object no callback can reach any
\* more is forgotten (its identifier becomes free again).  A closed socket
\* or session fires no further event, a cleared interval never ticks, and an
\* unmounted hook instance is reachable only through the closures of its
\* still-live sockets, sessions, timers, intervals and suspended tasks.
Collect(s) ==
    LET owners == {s.socks[k].inst : k \in {x \in DOMAIN s.socks : s.socks[x].rs \notin {"unused", "closed"}}}
                  \cup {s.pcs[p].inst : p \in {x \in DOMAIN s.pcs : s.pcs[x].cs \notin {"unused", "closed"}}}
                  \cup {t.inst : t \in SeqRange(s.timers)}
                  \cup {t.inst : t \in SeqRange(s.tasks)}
                  \cup {s.beats[h].inst : h \in {x \in DOMAIN s.beats : s.beats[x].active}}
        dead(j) == s.hook[j].phase = "gone" /\ j \notin owners
        hk == [j \in DOMAIN s.hook |->
                 IF dead(j)
                 THEN [phase |-> "gone", config |-> "none", isMounted |-> FALSE,
                       hasCleanup |-> FALSE, pcRef |-> 0, wsRef |-> 0,
                       broadcasterIdRef |-> "none",
                       localCandidateQueueRef |-> 0,
                       heartbeatIntervalRef |-> 0, reconnectAttemptsRef |-> 0,
                       lastPongOld |-> FALSE,
                       seen |-> [state |-> "idle", stream |-> 0, error |-> "none"],
                       srcObject |-> 0, throws |-> FALSE,
                       initial |-> [state |-> "idle", stream |-> 0, error |-> "none"]]
                 ELSE s.hook[j]]
        wsRefs == {s.store.ws} \cup {hk[j].wsRef : j \in DOMAIN hk}
        pcRefs == {s.store.pc} \cup {hk[j].pcRef : j \in DOMAIN hk}
                  \cup {t.pc : t \in SeqRange(s.timers)} \cup {t.pc : t \in SeqRange(s.tasks)}
        hbRefs == {s.store.heartbeatInterval} \cup {hk[j].heartbeatIntervalRef : j \in DOMAIN hk}
        qRefs  == {s.store.localCandidateQueue} \cup {hk[j].localCandidateQueueRef : j \in DOMAIN hk}
    IN [s EXCEPT
          !.hook = hk,
          !.socks = [k \in DOMAIN s.socks |->
                       IF s.socks[k].rs = "closed" /\ k \notin wsRefs THEN UnusedSock ELSE s.socks[k]],
          !.pcs = [p \in DOMAIN s.pcs |->
                       IF s.pcs[p].cs = "closed" /\ p \notin pcRefs THEN UnusedPc ELSE s.pcs[p]],
          !.beats = [h \in DOMAIN s.beats |->
                       IF ~s.beats[h].active /\ h \notin hbRefs THEN UnusedBeat ELSE s.beats[h]],
          !.arrays = [a \in DOMAIN s.arrays |->
                       IF a \notin qRefs THEN <<>> ELSE s.arrays[a]]]

Commit(s0) ==
    /\ ~s0.ovf
    /\ ~s0.thrown
    /\ LET s == Collect(s0)
       IN /\ store' = s.store
          /\ hook' = s.hook
          /\ socks' = s.socks
          /\ pcs' = s.pcs
          /\ timers' = s.timers
          /\ beats' = s.beats
          /\ arrays' = s.arrays
          /\ tasks' = s.tasks
          /\ wire' = s.wire
    /\ UNCHANGED isPersistent
    /\ UNCHANGED notifyVars

Triple(st) == [state |-> st.connectionState, stream |-> st.videoStream, error |-> st.error]

\* getStoreEntry: the entry created on first request for the key.  table
\* tells whether connectionStore holds the entry: "absent" before the first
\* request, "present" after it, "cleared" after connectionStore.clear().
NewEntry ==
    [pc |-> 0, ws |-> 0, videoStream |-> 0, connectionState |-> "idle",
     error |-> "none", broadcasterId |-> "none", lastConfig |-> "none",
     localCandidateQueue |-> 1, heartbeatInterval |-> 0, reconnectAttempts |-> 0,
     lastPongOld |-> FALSE, videoTracks |-> {}, subscribers |-> {},
     table |-> "absent"]

\* the refs of a hook instance, pointed at the store entry
SyncRefs(st, h) ==
    [h EXCEPT !.pcRef = st.pc, !.wsRef = st.ws, !.broadcasterIdRef = st.broadcasterId,
              !.localCandidateQueueRef = st.localCandidateQueue,
              !.heartbeatIntervalRef = st.heartbeatInterval,
              !.reconnectAttemptsRef = st.reconnectAttempts,
              !.lastPongOld = st.lastPongOld]

NewHook ==
    [phase |-> "new", config |-> "none", isMounted |-> FALSE, hasCleanup |-> FALSE,
     pcRef |-> 0, wsRef |-> 0, broadcasterIdRef |-> "none", localCandidateQueueRef |-> 0,
     heartbeatIntervalRef |-> 0, reconnectAttemptsRef |-> 0, lastPongOld |-> FALSE,
     seen |-> Triple(NewEntry), srcObject |-> 0, throws |-> FALSE,
     initial |-> Triple(NewEntry)]

\* updateCallback of the subscribe effect: the three setState calls, then the
\* video element (videoRef.current, attached while the component is mounted)
\* is given the stream and played when it does not hold that stream yet.
\* throws says that play() of the consumer's element raises synchronously.
NewStreamFor(st, h) ==
    st.videoStream # 0 /\ h.phase = "mounted" /\ h.srcObject # st.videoStream

updateCallbackAs(st, h) ==
    [h EXCEPT !.seen = Triple(st),
              !.srcObject = IF NewStreamFor(st, h) THEN st.videoStream ELSE @]

updateCallback(st, h) == updateCallbackAs(st, h)

Raises(st, h) == h.throws /\ NewStreamFor(st, h)

\* The subscribe effect without its initial sync.
subscribeSilently(st, h) == [h EXCEPT !.initial = h.seen]

\* The subscribe effect of hook h: subscribers.add (Mount), then the initial
\* sync updateCallback(connectionState, videoStream, error).  initial keeps
\* what the consumer held when the effect returned.
subscribe(st, h) == LET h1 == updateCallback(st, h) IN [h1 EXCEPT !.initial = h1.seen]

\* subscribers.forEach(cb => cb(connectionState, videoStream, error)): the
\* Set is walked in insertion order, which is the order of the instance
\* numbers (Mount), and the walk ends at the first callback that raises.
Reached(st, hk, j) ==
    j \in st.subscribers /\ \A k \in st.subscribers : k < j => ~Raises(st, hk[k])

NotifyAs(st, hk) ==
    [j \in Inst |-> IF Reached(st, hk, j) THEN updateCallback(st, hk[j]) ELSE hk[j]]

Notify(st, hk) == NotifyAs(st, hk)

\* updateStore of instance i: assign, sync the instance's refs, notify
updateStoreAs(s, i, updates) ==
    LET st == updates @@ s.store
        hk == [s.hook EXCEPT ![i] = SyncRefs(st, s.hook[i])]
    IN [s EXCEPT !.store = st, !.hook = Notify(st, hk),
                 !.thrown = @ \/ \E j \in st.subscribers : Raises(st, hk[j])]

updateStore(s, i, updates) == updateStoreAs(s, i, updates)

\* ws.close()
CloseSock(s, k) ==
    IF s.socks[k].rs \in {"connecting", "open"}
    THEN [s EXCEPT !.socks[k].rs = "closing"]
    ELSE s

\* pc.close()
ClosePc(s, p) == [s EXCEPT !.pcs[p].cs = "closed"]

\* ws.send(JSON.stringify(msg)) on socket k
Send(s, k, msg) ==
    IF Len(s.wire) >= MaxWire
    THEN [s EXCEPT !.ovf = TRUE]
    ELSE [s EXCEPT !.wire = Append(@, msg)]

IsOpen(s, k) == k # 0 /\ s.socks[k].rs = "open"

\* setTimeout(callback, delay)
AddTimer(s, t) ==
    IF Len(s.timers) >= MaxTimers
    THEN [s EXCEPT !.ovf = TRUE]
    ELSE [s EXCEPT !.timers = Append(@, [orphan |-> FALSE] @@ t)]

\* a fresh array object for `localCandidateQueue: []`
FreshArr(s, i) ==
    Min(ArrId \ ({s.hook[j].localCandidateQueueRef : j \in Inst \ {i}}))

\* cleanup(): persistent entries are kept alive, others are torn down
cleanupAs(s, i) ==
    IF isPersistent
    THEN [s EXCEPT !.hook[i].isMounted = FALSE]
    ELSE
      LET s1 == IF s.hook[i].heartbeatIntervalRef # 0
                THEN updateStore([s EXCEPT !.beats[s.hook[i].heartbeatIntervalRef].active = FALSE],
                                 i, [heartbeatInterval |-> 0])
                ELSE s
          s2 == IF s1.hook[i].wsRef # 0
                THEN updateStore(CloseSock(s1, s1.hook[i].wsRef), i, [ws |-> 0])
                ELSE s1
          s3 == IF s2.hook[i].pcRef # 0
                THEN updateStore(ClosePc(s2, s2.hook[i].pcRef), i, [pc |-> 0])
                ELSE s2
          s4 == [s3 EXCEPT !.store.videoTracks = {},
                           !.hook[i].srcObject = IF s3.hook[i].phase = "mounted" THEN 0 ELSE @]
          q  == FreshArr(s4, i)
          s5 == [s4 EXCEPT !.timers = [n \in DOMAIN @ |-> [@[n] EXCEPT !.orphan = TRUE]]]
      IN updateStore([s5 EXCEPT !.arrays[q] = <<>>], i,
                     [videoStream |-> 0, broadcasterId |-> "none",
                      localCandidateQueue |-> q, reconnectAttempts |-> 0,
                      connectionState |-> "idle", error |-> "none"])

cleanup(s, i) == cleanupAs(s, i)

\* createPeerConnection(): close the session the ref points at, create a new one
createPeerConnectionAs(s, i, c) ==
    LET old == s.hook[i].pcRef
        s1 == IF old # 0 /\ s.pcs[old].cs # "closed" THEN ClosePc(s, old) ELSE s
        free == {p \in PcId : s1.pcs[p].cs = "unused"}
    IN IF free = {}
       THEN [s1 EXCEPT !.ovf = TRUE]
       ELSE LET p == Min(free)
            IN updateStore([s1 EXCEPT !.pcs[p] = [cs |-> "new", inst |-> i, cfg |-> c,
                                                  neg |-> FALSE, fl |-> 0, rc |-> 0]],
                           i, [pc |-> p])

createPeerConnection(s, i, c) == createPeerConnectionAs(s, i, c)

\* connectSignaling(): nothing if the ref's socket is OPEN, else a new socket
connectSignalingAs(s, i, c) ==
    IF c = "none" THEN s
    ELSE IF IsOpen(s, s.hook[i].wsRef) THEN s
    ELSE
      LET s1 == updateStore(s, i, [connectionState |-> "connecting"])
          free == {k \in SockId : s1.socks[k].rs = "unused"}
      IN IF free = {}
         THEN [s1 EXCEPT !.ovf = TRUE]
         ELSE LET k == Min(free)
              IN updateStore([s1 EXCEPT !.socks[k] = [rs |-> "connecting", inst |-> i, cfg |-> c]],
                             i, [ws |-> k])

connectSignaling(s, i, c) == connectSignalingAs(s, i, c)

\* reconnect(): cleanup now, recreate 500 ms later
reconnectAs(s, i, c) ==
    IF ~s.hook[i].isMounted THEN s
    ELSE AddTimer(cleanup(s, i),
                  [kind |-> "reconnect", inst |-> i, cfg |-> c, pc |-> 0,
                   delay |-> ReconnectSettleDelay])

reconnect(s, i, c) == reconnectAs(s, i, c)

\* the main effect of the hook, run on mount and when config changes
MainEffectAs(s, i, c) ==
    LET s0 == [s EXCEPT !.hook[i].isMounted = TRUE]
    IN IF c = "none"
       THEN [updateStore(s0, i, [connectionState |-> "idle"]) EXCEPT !.hook[i].hasCleanup = FALSE]
       ELSE
         LET lc == s0.store.lastConfig
             configChanged == lc # "none" /\ (viewer_id(lc) # viewer_id(c)
                                              \/ signaling_url(lc) # signaling_url(c))
             live == isPersistent /\ s0.store.connectionState = "connected"
                       /\ s0.store.videoStream # 0
             w == s0.hook[i].wsRef
             p == s0.hook[i].pcRef
             sa == IF w # 0 THEN CloseSock(s0, w) ELSE s0
             sb == IF p # 0 THEN ClosePc(sa, p) ELSE sa
             sc == updateStore(sb, i, [pc |-> 0, ws |-> 0, videoStream |-> 0,
                                       connectionState |-> "idle",
                                       broadcasterId |-> "none", lastConfig |-> "none"])
             s1 == IF live /\ configChanged THEN sc ELSE s0
             s2 == updateStore(s1, i, [connectionState |-> "connecting", lastConfig |-> c])
             s3 == createPeerConnection(s2, i, c)
             s4 == IF s3.ovf THEN s3 ELSE connectSignaling(s3, i, c)
         IN IF live /\ ~configChanged
            THEN [s0 EXCEPT !.hook[i].hasCleanup = FALSE]
            ELSE [s4 EXCEPT !.hook[i].hasCleanup = TRUE]

MainEffect(s, i, c) == MainEffectAs(s, i, c)

\* the cleanup function the main effect returned
EffectCleanup(s, i) ==
    IF ~s.hook[i].hasCleanup THEN s
    ELSE LET s1 == [s EXCEPT !.hook[i].isMounted = FALSE]
         IN IF ~isPersistent THEN cleanup(s1, i) ELSE s1

----------------------------------------------------------------------------
Init ==
    /\ store = NewEntry
    /\ isPersistent \in BOOLEAN
    /\ hook = [i \in Inst |-> NewHook]
    /\ socks = [k \in SockId |-> UnusedSock]
    /\ pcs = [p \in PcId |-> UnusedPc]
    /\ timers = <<>>
    /\ beats = [h \in BeatId |-> UnusedBeat]
    /\ arrays = [a \in ArrId |-> <<>>]
    /\ tasks = <<>>
    /\ wire = <<>>
    /\ cands = <<>>
    /\ last = [op |-> "init", obj |-> 0, arg |-> "none", orphan |-> FALSE]
    /\ service = NewService
    /\ notifySocks = [k \in NotifySockId |-> "unused"]
    /\ notifyTimers = {}
    /\ provider = NewProvider

Did(op, i, obj, arg) == last' = [op |-> op, obj |-> obj, arg |-> arg, orphan |-> FALSE]

\* A component calling useWebRTC(c, cameraId) mounts: refs are initialised
\* from the entry, the subscribe effect runs, then the main effect.
MountAs(i, c, broken) ==
    /\ hook[i].phase = "new"
    /\ store.table # "cleared"
    /\ \A j \in Inst : j < i => hook[j].phase # "new"
    /\ LET s  == Cur
           h0 == subscribe(s.store,
                           [SyncRefs(s.store, s.hook[i]) EXCEPT
                               !.phase = "mounted", !.config = c,
                               !.isMounted = TRUE, !.throws = broken])
           s1 == [s EXCEPT !.hook[i] = h0,
                           !.store.table = "present",
                           !.store.subscribers = @ \cup {i}]
       IN Commit(MainEffect(s1, i, c))
    /\ UNCHANGED cands
    /\ Did("Mount", i, i, c)

Mount(i, c) == MountAs(i, c, FALSE)

\* The same for a component whose video element raises on play().  The entry
\* holds no stream yet, so the initial sync does not touch the element.
MountBroken(i, c) == store.videoStream = 0 /\ MountAs(i, c, TRUE)

\* The component unmounts: the subscribe effect's cleanup, then the main
\* effect's cleanup.
Unmount(i) ==
    /\ hook[i].phase = "mounted"
    /\ LET s  == Cur
           s1 == [s EXCEPT !.store.subscribers = @ \ {i}]
           s2 == EffectCleanup(s1, i)
       IN Commit([s2 EXCEPT !.hook[i].phase = "gone", !.hook[i].hasCleanup = FALSE,
                            !.hook[i].config = "none", !.hook[i].seen = Triple(NewEntry),
                            !.hook[i].srcObject = 0, !.hook[i].throws = FALSE,
                            !.hook[i].initial = Triple(NewEntry)])
    /\ UNCHANGED cands
    /\ Did("Unmount", i, i, "none")

\* ws.onopen
WsOpen(k) ==
    /\ socks[k].rs = "connecting"
    /\ LET i  == socks[k].inst
           s  == [Cur EXCEPT !.socks[k].rs = "open"]
       IN Commit(IF ~s.hook[i].isMounted THEN s
                 ELSE updateStore(s, i, [reconnectAttempts |-> 0, connectionState |-> "connecting"]))
    /\ UNCHANGED cands
    /\ Did("WsOpen", socks[k].inst, k, "none")

\* ws.onclose
onclose(s, i, c) ==
    IF ~s.hook[i].isMounted THEN s
    ELSE IF s.hook[i].reconnectAttemptsRef < maxReconnectAttempts
    THEN LET n  == s.hook[i].reconnectAttemptsRef + 1
             s1 == updateStore([s EXCEPT !.hook[i].reconnectAttemptsRef = n], i,
                               [reconnectAttempts |-> n])
         IN AddTimer(s1, [kind |-> "wsRetry", inst |-> i, cfg |-> c, pc |-> 0,
                          delay |-> reconnectDelay])
    ELSE updateStore(s, i, [connectionState |-> "failed", error |-> "max"])

WsClose(k) ==
    /\ socks[k].rs \in {"connecting", "open", "closing"}
    /\ Commit(onclose([Cur EXCEPT !.socks[k].rs = "closed"], socks[k].inst, socks[k].cfg))
    /\ UNCHANGED cands
    /\ Did("WsClose", socks[k].inst, k, socks[k].rs)

\* ws.onerror
WsError(k) ==
    /\ socks[k].rs \in {"connecting", "open"}
    /\ LET i == socks[k].inst
       IN Commit(IF ~hook[i].isMounted THEN Cur
                 ELSE updateStore(Cur, i, [error |-> "signaling"]))
    /\ UNCHANGED cands
    /\ Did("WsError", socks[k].inst, k, "none")

\* ws.onmessage, msg.type === 'ping': answered on the socket the ref points at
onping(s, i, c) ==
    IF ~s.hook[i].isMounted THEN s
    ELSE IF IsOpen(s, s.hook[i].wsRef)
    THEN Send(s, s.hook[i].wsRef,
              [type |-> "pong", from |-> viewer_id(c), to |-> s.hook[i].broadcasterIdRef,
               cand |-> 0, re |-> "none"])
    ELSE s

WsPing(k) ==
    /\ socks[k].rs = "open"
    /\ Commit(onping(Cur, socks[k].inst, socks[k].cfg))
    /\ UNCHANGED cands
    /\ Did("WsPing", socks[k].inst, k, "none")

\* ws.onmessage, msg.type === 'pong': lastPongTime = Date.now()
WsPong(k) ==
    /\ socks[k].rs = "open"
    /\ LET i == socks[k].inst
       IN /\ hook[i].isMounted
          /\ hook[i].lastPongOld \/ store.lastPongOld
          /\ Commit(updateStore([Cur EXCEPT !.hook[i].lastPongOld = FALSE], i,
                                [lastPongOld |-> FALSE]))
    /\ UNCHANGED cands
    /\ Did("WsPong", socks[k].inst, k, "none")

\* handleSignalingMessage, type === 'offer', up to `await pc.setRemoteDescription`
offerStart(s, i, c, from) ==
    IF ~s.hook[i].isMounted THEN s
    ELSE
      LET s1 == updateStore([s EXCEPT !.hook[i].broadcasterIdRef = from], i,
                            [broadcasterId |-> from])
          s2 == IF s1.hook[i].pcRef = 0 THEN createPeerConnection(s1, i, c) ELSE s1
      IN IF s2.ovf \/ Len(s2.tasks) >= MaxTasks
         THEN [s2 EXCEPT !.ovf = TRUE]
         ELSE [s2 EXCEPT !.tasks = Append(@, [inst |-> i, cfg |-> c, pc |-> s2.hook[i].pcRef,
                                              from |-> from, step |-> "srd"])]

WsOffer(k, from) ==
    /\ socks[k].rs = "open"
    /\ hook[socks[k].inst].isMounted
    /\ Commit(offerStart(Cur, socks[k].inst, socks[k].cfg, from))
    /\ UNCHANGED cands
    /\ Did("WsOffer", socks[k].inst, k, from)

RemoveAt(seq, n) == SubSeq(seq, 1, n - 1) \o SubSeq(seq, n + 1, Len(seq))

\* the catch block of the offer branch
offerFailed(s, i) == updateStore(s, i, [error |-> "offer", connectionState |-> "failed"])

\* `await pc.setRemoteDescription(offer)` settles
TaskSrd(n, ok) ==
    /\ n \in 1..Len(tasks)
    /\ tasks[n].step = "srd"
    /\ ok => pcs[tasks[n].pc].cs # "closed"
    /\ LET t == tasks[n]
       IN Commit(IF ok
                 THEN [Cur EXCEPT !.pcs[t.pc].neg = TRUE, !.tasks[n].step = "answer"]
                 ELSE offerFailed([Cur EXCEPT !.tasks = RemoveAt(@, n)], t.inst))
    /\ UNCHANGED cands
    /\ Did("TaskSrd", tasks[n].inst, tasks[n].pc, IF ok THEN "ok" ELSE "rejected")

RECURSIVE flushTo(_, _, _, _)
\* while (queue.length > 0) { cmsg = queue.shift(); cmsg.to = broadcasterId; send if OPEN }
flushTo(s, i, q, items) ==
    IF items = <<>> THEN [s EXCEPT !.arrays[q] = <<>>]
    ELSE LET m == [Head(items) EXCEPT !.to = s.hook[i].broadcasterIdRef]
             s1 == IF IsOpen(s, s.hook[i].wsRef) THEN Send(s, s.hook[i].wsRef, m) ELSE s
         IN flushTo(s1, i, q, Tail(items))

flushAs(s, i) ==
    flushTo(s, i, s.hook[i].localCandidateQueueRef, s.arrays[s.hook[i].localCandidateQueueRef])

flush(s, i) == flushAs(s, i)

\* the answer message, sent if the socket is OPEN
sendAnswerAs(s, i, c, from) ==
    IF IsOpen(s, s.hook[i].wsRef)
    THEN Send(s, s.hook[i].wsRef,
              [type |-> "answer", from |-> viewer_id(c), to |-> s.hook[i].broadcasterIdRef,
               cand |-> 0, re |-> from])
    ELSE s

sendAnswer(s, i, c, from) == sendAnswerAs(s, i, c, from)

\* "Start heartbeat": clear the old interval, lastPongTime = now, setInterval
startHeartbeat(s, i, c) ==
    LET old == s.hook[i].heartbeatIntervalRef
        s1 == IF old # 0 THEN [s EXCEPT !.beats[old].active = FALSE] ELSE s
        s2 == updateStore([s1 EXCEPT !.hook[i].lastPongOld = FALSE], i, [lastPongOld |-> FALSE])
        free == {h \in BeatId : ~s2.beats[h].used}
    IN IF free = {}
       THEN [s2 EXCEPT !.ovf = TRUE]
       ELSE LET h == Min(free)
            IN updateStore([s2 EXCEPT !.beats[h] = [active |-> TRUE, used |-> TRUE,
                                                    inst |-> i, cfg |-> c]],
                           i, [heartbeatInterval |-> h])

\* the offer branch after setRemoteDescription: answer, heartbeat, flush
offerFinish(s, i, c, from) ==
    LET s1 == sendAnswer(s, i, c, from)
        s2 == IF s1.ovf THEN s1 ELSE startHeartbeat(s1, i, c)
    IN IF s2.ovf THEN s2 ELSE flush(s2, i)

\* `await pc.createAnswer()` and `await pc.setLocalDescription(answer)` settle
TaskAnswer(n, ok) ==
    /\ n \in 1..Len(tasks)
    /\ tasks[n].step = "answer"
    /\ ok => pcs[tasks[n].pc].cs # "closed"
    /\ LET t == tasks[n]
           s == [Cur EXCEPT !.tasks = RemoveAt(@, n)]
       IN Commit(IF ok THEN offerFinish(s, t.inst, t.cfg, t.from)
                       ELSE offerFailed(s, t.inst))
    /\ UNCHANGED cands
    /\ Did("TaskAnswer", tasks[n].inst, tasks[n].pc, IF ok THEN "ok" ELSE "rejected")

\* the setInterval callback of the heartbeat
heartbeatTick(s, i, c) ==
    IF ~s.hook[i].isMounted THEN s
    ELSE IF IsOpen(s, s.hook[i].wsRef) /\ s.hook[i].broadcasterIdRef # "none"
    THEN IF s.hook[i].lastPongOld
         THEN reconnect(s, i, c)
         ELSE Send(s, s.hook[i].wsRef,
                   [type |-> "ping", from |-> viewer_id(c), to |-> s.hook[i].broadcasterIdRef,
                    cand |-> 0, re |-> "none"])
    ELSE s

HeartbeatTick(h) ==
    /\ beats[h].active
    /\ Commit(heartbeatTick(Cur, beats[h].inst, beats[h].cfg))
    /\ UNCHANGED cands
    /\ Did("HeartbeatTick", beats[h].inst, h,
           IF hook[beats[h].inst].lastPongOld THEN "stale" ELSE "fresh")

\* more than 30 s pass without a pong: Date.now() - lastPongTime > 30000
PongTimeout ==
    /\ \E h \in BeatId : beats[h].active
    /\ ~store.lastPongOld \/ \E i \in Inst : ~hook[i].lastPongOld
    /\ Commit([Cur EXCEPT !.store.lastPongOld = TRUE,
                          !.hook = [i \in Inst |-> [hook[i] EXCEPT !.lastPongOld = TRUE]]])
    /\ UNCHANGED cands
    /\ Did("PongTimeout", 0, 0, "none")

\* 'failed' is reported for session p: fl records whether it was reported
\* once (1) or again while a debounce timer of an earlier report is pending (2)
reportFailed(s, p) ==
    IF \E n \in 1..Len(s.timers) : s.timers[n].pc = p /\ s.timers[n].kind \in {"iceFailed", "connFailed"}
    THEN [s EXCEPT !.pcs[p].fl = 2]
    ELSE [s EXCEPT !.pcs[p].fl = IF @ = 0 THEN 1 ELSE @]

\* pc.oniceconnectionstatechange
oniceconnectionstatechange(s, i, c, p, state) ==
    IF ~s.hook[i].isMounted THEN s
    ELSE IF state = "connected"
    THEN updateStore(s, i, [connectionState |-> "connected", error |-> "none"])
    ELSE IF state = "checking"
    THEN updateStore(s, i, [connectionState |-> "connecting"])
    ELSE IF state = "failed"
    THEN AddTimer(updateStore(reportFailed(s, p), i, [connectionState |-> "failed", error |-> "ice"]),
                  [kind |-> "iceFailed", inst |-> i, cfg |-> c, pc |-> p,
                   delay |-> FailedDebounce])
    ELSE s

IceState(p, state) ==
    /\ pcs[p].cs \notin {"unused", "closed"}
    /\ pcs[p].neg
    /\ Commit(oniceconnectionstatechange(Cur, pcs[p].inst, pcs[p].cfg, p, state))
    /\ UNCHANGED cands
    /\ Did("IceState", pcs[p].inst, p, state)

\* pc.onconnectionstatechange
onconnectionstatechange(s, i, c, p, state) ==
    IF ~s.hook[i].isMounted THEN s
    ELSE IF state = "connected"
    THEN updateStore(s, i, [connectionState |-> "connected", error |-> "none"])
    ELSE IF state = "connecting"
    THEN updateStore(s, i, [connectionState |-> "connecting"])
    ELSE IF state = "failed"
    THEN AddTimer(updateStore(reportFailed(s, p), i, [connectionState |-> "failed", error |-> "conn"]),
                  [kind |-> "connFailed", inst |-> i, cfg |-> c, pc |-> p,
                   delay |-> FailedDebounce])
    ELSE IF state = "disconnected"
    THEN AddTimer(updateStore(s, i, [connectionState |-> "disconnected"]),
                  [kind |-> "connDisconnected", inst |-> i, cfg |-> c, pc |-> p,
                   delay |-> DisconnectedDebounce])
    ELSE s

ConnState(p, state) ==
    /\ pcs[p].cs \notin {"unused", "closed"}
    /\ pcs[p].neg
    /\ pcs[p].cs # state
    /\ Commit(onconnectionstatechange([Cur EXCEPT !.pcs[p].cs = state],
                                      pcs[p].inst, pcs[p].cfg, p, state))
    /\ UNCHANGED cands
    /\ Did("ConnState", pcs[p].inst, p, state)

\* pc.ontrack: one stream per track id; the track of session p has id p.
\* The handler gives the stream to its own video element and plays it, then
\* publishes it; updateStore is its last statement.
ontrack(s, i, p) ==
    IF ~s.hook[i].isMounted THEN s
    ELSE LET att == s.hook[i].phase = "mounted"
             s1  == [s EXCEPT !.store.videoTracks = @ \cup {p},
                              !.hook[i].srcObject = IF att THEN p ELSE @]
         IN IF att /\ s.hook[i].throws
            THEN [s1 EXCEPT !.thrown = TRUE]
            ELSE updateStore(s1, i, [videoStream |-> p, connectionState |-> "connected",
                                     error |-> "none"])

Track(p) ==
    /\ pcs[p].cs \notin {"unused", "closed"}
    /\ pcs[p].neg
    /\ store.videoStream # p \/ store.connectionState # "connected" \/ store.error # "none"
    /\ Commit([ontrack(Cur, pcs[p].inst, p) EXCEPT !.thrown = FALSE])
    /\ UNCHANGED cands
    /\ Did("Track", pcs[p].inst, p, "none")

\* pc.onicecandidate: buffer while the remote id is unknown, else send
onicecandidate(s, i, c, n, p) ==
    LET payload == [type |-> "ice", from |-> viewer_id(c), to |-> s.hook[i].broadcasterIdRef,
                    cand |-> n, re |-> "none", pc |-> p]
        q == s.hook[i].localCandidateQueueRef
    IN IF s.hook[i].broadcasterIdRef = "none"
       THEN [s EXCEPT !.arrays[q] = Append(@, payload)]
       ELSE IF IsOpen(s, s.hook[i].wsRef)
       THEN Send(s, s.hook[i].wsRef, payload)
       ELSE s

IceCandidate(p) ==
    /\ pcs[p].cs \notin {"unused", "closed"}
    /\ Len(cands) < MaxCand
    /\ Commit(onicecandidate(Cur, pcs[p].inst, pcs[p].cfg, Len(cands) + 1, p))
    /\ cands' = Append(cands, hook[pcs[p].inst].broadcasterIdRef = "none")
    /\ Did("IceCandidate", pcs[p].inst, p, "none")

\* a pending timer may fire unless an earlier-scheduled one has a delay that
\* is not longer (that one is due first)
CanFire(n) ==
    /\ n \in 1..Len(timers)
    /\ \A m \in 1..(n - 1) : timers[m].delay > timers[n].delay

\* the setTimeout callbacks
timerBody(s, t) ==
    LET i == t.inst
        c == t.cfg
    IN IF ~s.hook[i].isMounted THEN s
       ELSE IF t.kind \in {"iceFailed", "connFailed"}
       THEN IF s.pcs[t.pc].cs = "failed"
            THEN reconnect([s EXCEPT !.pcs[t.pc].rc = @ + 1], i, c) ELSE s
       ELSE IF t.kind = "connDisconnected"
       THEN IF s.pcs[t.pc].cs = "disconnected"
            THEN reconnect([s EXCEPT !.pcs[t.pc].rc = @ + 1], i, c) ELSE s
       ELSE IF t.kind = "wsRetry"
       THEN connectSignaling(s, i, c)
       ELSE \* "reconnect": if (isMountedRef.current && config)
            IF c = "none" THEN s
            ELSE LET s1 == createPeerConnection(s, i, c)
                 IN IF s1.ovf THEN s1 ELSE connectSignaling(s1, i, c)

TimerFire(n) ==
    /\ CanFire(n)
    /\ Commit(timerBody([Cur EXCEPT !.timers = RemoveAt(@, n)], timers[n]))
    /\ UNCHANGED cands
    /\ last' = [op |-> "TimerFire", obj |-> timers[n].pc, arg |-> timers[n].kind,
                orphan |-> timers[n].orphan]

\* the config prop of a mounted consumer changes: the old effect's cleanup
\* runs, then the main effect with the new config
ConfigChange(i, c) ==
    /\ hook[i].phase = "mounted"
    /\ hook[i].config # c
    /\ LET s1 == EffectCleanup(Cur, i)
       IN Commit(MainEffect([s1 EXCEPT !.hook[i].config = c], i, c))
    /\ UNCHANGED cands
    /\ Did("ConfigChange", i, i, c)

\* the UI calls the reconnect() the hook returned
Reconnect(i) ==
    /\ hook[i].phase = "mounted"
    /\ Commit(reconnect(Cur, i, hook[i].config))
    /\ UNCHANGED cands
    /\ Did("Reconnect", i, i, hook[i].config)

\* cleanupAllWebRTCConnections(): for the entry of the table, clear the
\* heartbeat, close the socket and the session, then connectionStore.clear().
\* The entry object itself stays reachable from the closures of its hooks; a
\* later mount would get a fresh entry, which this model does not follow
\* (Mount is disabled once the table was cleared).
cleanupAllWebRTCConnections(s) ==
    LET h  == s.store.heartbeatInterval
        s1 == IF h # 0 THEN [s EXCEPT !.beats[h].active = FALSE] ELSE s
        s2 == IF s1.store.ws # 0 THEN CloseSock(s1, s1.store.ws) ELSE s1
        s3 == IF s2.store.pc # 0 THEN ClosePc(s2, s2.store.pc) ELSE s2
    IN [s3 EXCEPT !.store.table = "cleared",
                  !.timers = [n \in DOMAIN @ |-> [@[n] EXCEPT !.orphan = TRUE]]]

\* App.handleLogout calls cleanupAllWebRTCConnections()
CleanupAll ==
    /\ store.table = "present"
    /\ Commit(cleanupAllWebRTCConnections(Cur))
    /\ UNCHANGED cands
    /\ Did("CleanupAll", 0, 0, "none")

\* ---- specifications ----
\* Every action above is one callback of the hook or one event of its
\* environment.  Next composes all of them; each specification after it
\* composes the callbacks one part of the manager involves, with the
\* environment restricted to the events that part reacts to.
Next ==
    \/ \E i \in Inst, c \in Cfg \cup {"none"} : Mount(i, c)
    \/ \E i \in Inst, c \in Cfg \cup {"none"} : MountBroken(i, c)
    \/ \E i \in Inst : Unmount(i)
    \/ \E i \in Inst, c \in Cfg \cup {"none"} : ConfigChange(i, c)
    \/ \E i \in Inst : Reconnect(i)
    \/ \E k \in SockId : WsOpen(k)
    \/ \E k \in SockId : WsClose(k)
    \/ \E k \in SockId : WsError(k)
    \/ \E k \in SockId : WsPing(k)
    \/ \E k \in SockId : WsPong(k)
    \/ \E k \in SockId, b \in Peers : WsOffer(k, b)
    \/ \E n \in 1..MaxTasks, ok \in BOOLEAN : TaskSrd(n, ok)
    \/ \E n \in 1..MaxTasks, ok \in BOOLEAN : TaskAnswer(n, ok)
    \/ \E h \in BeatId : HeartbeatTick(h)
    \/ PongTimeout
    \/ \E p \in PcId, st \in {"checking", "connected", "failed"} : IceState(p, st)
    \/ \E p \in PcId, st \in {"connecting", "connected", "disconnected", "failed"} : ConnState(p, st)
    \/ \E p \in PcId : Track(p)
    \/ \E p \in PcId : IceCandidate(p)
    \/ \E n \in 1..MaxTimers : TimerFire(n)
    \/ CleanupAll

Spec == Init /\ [][Next]_vars

\* the first offer of a connection: no negotiation in flight, remote id unknown
FirstOffer(k) ==
    /\ tasks = <<>>
    /\ store.broadcasterId = "none"
    /\ WsOffer(k, "b1")

\* the close event of a socket the hook itself closed
ClosedByHook(k) ==
    /\ socks[k].rs = "closing"
    /\ WsClose(k)

\* the close event of a socket that had opened
Established(k) ==
    /\ socks[k].rs \in {"open", "closing"}
    /\ WsClose(k)

\* The signaling link of one consumer: open, close, retry, reconnect().
NextLink ==
    \/ Mount(1, "c1")
    \/ Unmount(1)
    \/ Reconnect(1)
    \/ \E k \in SockId : WsOpen(k)
    \/ \E k \in SockId : WsClose(k)
    \/ \E n \in 1..MaxTimers : TimerFire(n)

SpecLink == Init /\ [][NextLink]_vars

\* Negotiation of one consumer: offers, answers and local ICE candidates.
NextNegotiate ==
    \/ Mount(1, "c1")
    \/ \E k \in SockId : WsOpen(k)
    \/ \E k \in SockId, b \in Peers : WsOffer(k, b)
    \/ \E n \in 1..MaxTasks, ok \in BOOLEAN : TaskSrd(n, ok)
    \/ \E n \in 1..MaxTasks, ok \in BOOLEAN : TaskAnswer(n, ok)
    \/ \E p \in PcId : IceCandidate(p)

SpecNegotiate == Init /\ [][NextNegotiate]_vars

\* Two consumers of the key: the second mounts on the entry of the first,
\* the first unmounts, and the socket and the session go on reporting events.
NextConsumers ==
    \/ Mount(1, "c1")
    \/ Mount(2, "c1")
    \/ Unmount(1)
    \/ \E k \in SockId : WsOpen(k)
    \/ \E k \in SockId : FirstOffer(k)
    \/ \E n \in 1..MaxTasks : TaskSrd(n, TRUE)
    \/ \E n \in 1..MaxTasks : TaskAnswer(n, TRUE)
    \/ \E p \in PcId : Track(p)
    \/ \E p \in PcId, st \in {"connecting", "connected"} : ConnState(p, st)

SpecConsumers == Init /\ [][NextConsumers]_vars

\* Two consumers of the key, the first possibly with a video element whose
\* play() raises, while the session is negotiated and delivers its track.
NextFanout ==
    \/ Mount(1, "c1")
    \/ MountBroken(1, "c1")
    \/ Mount(2, "c1")
    \/ \E k \in SockId : WsOpen(k)
    \/ \E k \in SockId : FirstOffer(k)
    \/ \E n \in 1..MaxTasks : TaskSrd(n, TRUE)
    \/ \E n \in 1..MaxTasks : TaskAnswer(n, TRUE)
    \/ \E p \in PcId : Track(p)
    \/ \E p \in PcId, st \in {"connecting", "connected"} : ConnState(p, st)

SpecFanout == Init /\ [][NextFanout]_vars

\* One consumer, a camera card or a camera detail page, is given whatever
\* config the camera record carries.
NextAcquire ==
    \/ \E raw \in RawCfg : Mount(1, CameraCardConfig(raw))
    \/ \E raw \in RawCfg : Mount(1, CameraDetailConfig(raw))
    \/ Unmount(1)
    \/ \E k \in SockId : WsOpen(k)
    \/ \E k \in SockId : FirstOffer(k)
    \/ \E n \in 1..MaxTasks : TaskSrd(n, TRUE)
    \/ \E n \in 1..MaxTasks : TaskAnswer(n, TRUE)
    \/ \E k \in SockId : Established(k)
    \/ \E n \in 1..MaxTimers : TimerFire(n)

SpecAcquire == Init /\ [][NextAcquire]_vars

\* Two consumers of the key, the first of which calls reconnect(), while
\* sessions are negotiated and report tracks and state changes.
NextStale ==
    \/ Mount(1, "c1")
    \/ Mount(2, "c1")
    \/ Reconnect(1)
    \/ \E k \in SockId : WsOpen(k)
    \/ \E k \in SockId : FirstOffer(k)
    \/ \E n \in 1..MaxTasks : TaskSrd(n, TRUE)
    \/ \E n \in 1..MaxTasks : TaskAnswer(n, TRUE)
    \/ \E p \in PcId : Track(p)
    \/ \E p \in PcId : ConnState(p, "connected")
    \/ \E n \in 1..MaxTimers : TimerFire(n)

SpecStale == Init /\ [][NextStale]_vars

\* One consumer that mounts and unmounts while the peer pings, the session
\* changes state and the socket closes.
NextBackground ==
    \/ Mount(1, "c1")
    \/ Unmount(1)
    \/ \E k \in SockId : WsOpen(k)
    \/ \E k \in SockId : Established(k)
    \/ \E k \in SockId : WsPing(k)
    \/ \E k \in SockId : FirstOffer(k)
    \/ \E n \in 1..MaxTasks : TaskSrd(n, TRUE)
    \/ \E n \in 1..MaxTasks : TaskAnswer(n, TRUE)
    \/ \E p \in PcId, st \in {"connecting", "connected"} : ConnState(p, st)
    \/ \E n \in 1..MaxTimers : TimerFire(n)

SpecBackground == Init /\ [][NextBackground]_vars

\* The heartbeat of one consumer: negotiation up to the answer, pings, pongs,
\* staleness and the reconnect it triggers.
NextHeartbeat ==
    \/ Mount(1, "c1")
    \/ \E k \in SockId : WsOpen(k)
    \/ \E k \in SockId : ClosedByHook(k)
    \/ \E k \in SockId : FirstOffer(k)
    \/ \E n \in 1..MaxTasks : TaskSrd(n, TRUE)
    \/ \E n \in 1..MaxTasks : TaskAnswer(n, TRUE)
    \/ \E k \in SockId : WsPong(k)
    \/ PongTimeout
    \/ \E h \in BeatId : HeartbeatTick(h)
    \/ \E n \in 1..MaxTimers : TimerFire(n)

SpecHeartbeat == Init /\ [][NextHeartbeat]_vars

\* The session of one consumer fails: ICE and connection state changes and
\* the debounce timers they schedule.
NextSession ==
    \/ Mount(1, "c1")
    \/ \E k \in SockId : WsOpen(k)
    \/ \E k \in SockId : ClosedByHook(k)
    \/ \E k \in SockId : FirstOffer(k)
    \/ \E n \in 1..MaxTasks : TaskSrd(n, TRUE)
    \/ \E n \in 1..MaxTasks : TaskAnswer(n, TRUE)
    \/ \E p \in PcId : IceState(p, "failed")
    \/ \E p \in PcId : ConnState(p, "failed")
    \/ \E n \in 1..MaxTimers : TimerFire(n)

SpecSession == Init /\ [][NextSession]_vars

\* The config prop of one connected consumer changes.
NextConfig ==
    \/ Mount(1, "c1")
    \/ ConfigChange(1, "c2")
    \/ \E k \in SockId : WsOpen(k)
    \/ \E k \in SockId : ClosedByHook(k)
    \/ \E k \in SockId : FirstOffer(k)
    \/ \E n \in 1..MaxTasks : TaskSrd(n, TRUE)
    \/ \E n \in 1..MaxTasks : TaskAnswer(n, TRUE)
    \/ \E p \in PcId : Track(p)
    \/ \E n \in 1..MaxTimers : TimerFire(n)

SpecConfig == Init /\ [][NextConfig]_vars

\* One consumer whose entry is released by an unmount or by a re-run of the
\* main effect while retry timers pend.
NextRelease ==
    \/ Mount(1, "c1")
    \/ Unmount(1)
    \/ ConfigChange(1, "c2")
    \/ \E k \in SockId : WsOpen(k)
    \/ \E k \in SockId : Established(k)
    \/ \E n \in 1..MaxTimers : TimerFire(n)

SpecRelease == Init /\ [][NextRelease]_vars

\* a timer that is due while the application logs out: any timer before
\* dispose-all, and after it only one that was already pending (the consumers
\* unmount long before a timer set after dispose-all expires)
DueAtLogout(n) ==
    /\ n \in 1..Len(timers)
    /\ store.table = "cleared" => timers[n].orphan
    /\ TimerFire(n)

\* Logout: dispose-all on the entry of one consumer, which unmounts when the
\* application re-renders.
NextDispose ==
    \/ Mount(1, "c1")
    \/ Unmount(1)
    \/ CleanupAll
    \/ \E k \in SockId : WsOpen(k)
    \/ \E k \in SockId : Established(k)
    \/ \E k \in SockId : FirstOffer(k)
    \/ \E n \in 1..MaxTasks : TaskSrd(n, TRUE)
    \/ \E n \in 1..MaxTasks : TaskAnswer(n, TRUE)
    \/ \E n \in 1..MaxTimers : DueAtLogout(n)

SpecDispose == Init /\ [][NextDispose]_vars

----------------------------------------------------------------------------
\* ---- the notification WebSocketService and its NotificationProvider ----

\* The service state a method or a socket handler works on.
NotifyCur ==
    [service |-> service, socks |-> notifySocks, timers |-> notifyTimers,
     provider |-> provider, ovf |-> FALSE]

\* A socket object is kept while it can still deliver an event.
FreeNotifySocks(n) == {k \in NotifySockId : n.socks[k] = "unused"}
Least(S) == CHOOSE x \in S : \A y \in S : x <= y

\* clearTimeout(h): a no-op for null and for a handle that has fired
clearTimeout(n, h) == [n EXCEPT !.timers = {t \in @ : t.h # h}]

\* notifyConnection / notifyError call the registered handlers; the provider
\* registers its handlers in the effect and removes them in its cleanup.
notifyConnection(n, connected) ==
    IF ~n.provider.mounted THEN n
    ELSE [n EXCEPT !.provider.isConnected = connected,
                   !.provider.error = IF connected THEN "null" ELSE @]

notifyError(n, msg) ==
    IF ~n.provider.mounted THEN n ELSE [n EXCEPT !.provider.error = msg]

\* connect(): token is what getToken() returns (is there one)
connect(n, token) ==
    IF n.service.ws # 0 /\ n.socks[n.service.ws] = "open" THEN n
    ELSE IF ~token THEN notifyError(n, "No authentication token found")
    ELSE IF FreeNotifySocks(n) = {} THEN [n EXCEPT !.ovf = TRUE]
    ELSE LET k == Least(FreeNotifySocks(n))
         IN [n EXCEPT !.service.ws = k, !.socks[k] = "connecting"]

\* disconnect()
disconnect(n) ==
    LET n1 == [n EXCEPT !.service.isIntentionallyClosed = TRUE]
        n2 == IF n1.service.reconnectTimer # 0
              THEN [clearTimeout(n1, n1.service.reconnectTimer)
                       EXCEPT !.service.reconnectTimer = 0]
              ELSE n1
    IN IF n2.service.ws # 0
       THEN [n2 EXCEPT !.socks[n2.service.ws] =
                           IF @ \in {"connecting", "open"} THEN "closing" ELSE @,
                       !.service.ws = 0]
       ELSE n2

\* scheduleReconnect()
scheduleReconnect(n) ==
    LET n1 == IF n.service.reconnectTimer # 0
              THEN clearTimeout(n, n.service.reconnectTimer) ELSE n
        n2 == [n1 EXCEPT !.service.reconnectAttempts = @ + 1]
        delay == notifyReconnectDelay * n2.service.reconnectAttempts
        free == NotifyTimerId \ {t.h : t \in n2.timers}
    IN IF free = {} THEN [n2 EXCEPT !.ovf = TRUE]
       ELSE LET h == Least(free)
            IN [n2 EXCEPT !.timers = @ \cup {[h |-> h, delay |-> delay]},
                          !.service.reconnectTimer = h]

\* this.ws.onopen of the service
serviceOnopen(n) ==
    notifyConnection([n EXCEPT !.service.reconnectAttempts = 0,
                               !.service.isIntentionallyClosed = FALSE], TRUE)

\* this.ws.onclose of the service
serviceOnclose(n) ==
    LET n1 == [notifyConnection(n, FALSE) EXCEPT !.service.ws = 0]
    IN IF ~n1.service.isIntentionallyClosed
          /\ n1.service.reconnectAttempts < notifyMaxReconnectAttempts
       THEN scheduleReconnect(n1)
       ELSE IF n1.service.reconnectAttempts >= notifyMaxReconnectAttempts
       THEN notifyError(n1, "Failed to connect after multiple attempts")
       ELSE n1

NotifyCommit(n) ==
    /\ ~n.ovf
    /\ service' = n.service
    /\ notifySocks' = n.socks
    /\ notifyTimers' = n.timers
    /\ provider' = n.provider
    /\ UNCHANGED hookVars

\* NotificationProvider mounts: its effect calls connect(), then registers
\* its handlers.
ProviderMount(token) ==
    /\ ~provider.mounted
    /\ NotifyCommit([connect(NotifyCur, token) EXCEPT !.provider.mounted = TRUE])
    /\ Did("ProviderMount", 0, 0, "none")

\* NotificationProvider unmounts: the effect cleanup removes the handlers,
\* then calls disconnect(); the component's state is gone.
ProviderUnmount ==
    /\ provider.mounted
    /\ NotifyCommit(disconnect([NotifyCur EXCEPT !.provider = NewProvider]))
    /\ Did("ProviderUnmount", 0, 0, "none")

\* the open event of socket k
NotifyOpen(k) ==
    /\ notifySocks[k] = "connecting"
    /\ NotifyCommit(serviceOnopen([NotifyCur EXCEPT !.socks[k] = "open"]))
    /\ Did("NotifyOpen", 0, k, "none")

\* the error event of socket k
NotifyError(k) ==
    /\ notifySocks[k] \in {"connecting", "open", "closing"}
    /\ NotifyCommit(notifyError(NotifyCur, "WebSocket connection error"))
    /\ Did("NotifyError", 0, k, "none")

\* the close event of socket k: the server or the network ended it, or
\* close() was called on it before.  The socket delivers nothing after it.
NotifyClose(k) ==
    /\ notifySocks[k] \in {"connecting", "open", "closing"}
    /\ NotifyCommit(serviceOnclose([NotifyCur EXCEPT !.socks[k] = "unused"]))
    /\ Did("NotifyClose", 0, k, notifySocks[k])

\* the timeout set by scheduleReconnect fires
NotifyTimerFire(h, token) ==
    /\ \E t \in notifyTimers : t.h = h
    /\ NotifyCommit(connect(clearTimeout(NotifyCur, h), token))
    /\ Did("NotifyTimerFire", 0, h, "none")

NextNotify ==
    \/ \E token \in BOOLEAN : ProviderMount(token)
    \/ ProviderUnmount
    \/ \E k \in NotifySockId : NotifyOpen(k)
    \/ \E k \in NotifySockId : NotifyError(k)
    \/ \E k \in NotifySockId : NotifyClose(k)
    \/ \E h \in NotifyTimerId, token \in BOOLEAN : NotifyTimerFire(h, token)

SpecNotify == Init /\ [][NextNotify]_vars

----------------------------------------------------------------------------
\* ---- the claims ----
OpenSocks == {k \in SockId : socks[k].rs = "open"}
LiveSessions == {p \in PcId : pcs[p].cs \notin {"unused", "closed"}}

\* C1: for the stream key, in every reachable state, at most one non-closed
\* peer session and at most one open signaling socket exist.
C1_OneSessionOneSocket ==
    /\ Cardinality(OpenSocks) <= 1
    /\ Cardinality(LiveSessions) <= 1

\* the consumers that are mounted and subscribed to the entry
Subscribed == {j \in Inst : hook[j].phase = "mounted" /\ j \in store.subscribers}

\* C2: once one of two consumers of the key has unmounted, a connection-state
\* change reported by the entry's session is delivered to the consumer that
\* is still subscribed: it sees the state the session reported.
C2_RemainingSubscriberNotified ==
    [][(/\ last'.op = "ConnState"
        /\ last'.obj = store.pc
        /\ \E j \in Inst : hook[j].phase = "gone"
        /\ Subscribed # {})
       => \A j \in Subscribed : hook'[j].seen.state = last'.arg]_vars

\* C3: after the consumer of a persistent entry has unmounted, the entry
\* still answers a ping of the peer with a pong, still takes over the state
\* its session reports, and still schedules a retry when its socket closes.
C3_BackgroundEntryKeepsRunning ==
    [][(/\ isPersistent
        /\ last'.obj # 0
        /\ \E j \in Inst : hook[j].phase = "gone"
        /\ \A j \in Inst : hook[j].phase # "mounted")
       => /\ (last'.op = "WsPing" /\ last'.obj = store.ws)
             => /\ Len(wire') = Len(wire) + 1
                /\ wire'[Len(wire')].type = "pong"
          /\ (last'.op = "ConnState" /\ last'.obj = store.pc)
             => store'.connectionState = last'.arg
          /\ (last'.op = "WsClose" /\ last'.obj = store.ws /\ last'.arg = "open")
             => \E n \in 1..Len(timers') : timers'[n].kind = "wsRetry"]_vars

\* the heartbeat whose tick is the step, and the instance it belongs to
TickBeat == last'.obj
TickInst == beats[TickBeat].inst

\* C4: a heartbeat tick that finds the socket open and the last pong more
\* than 30 s old tears the socket and the session down and schedules their
\* re-creation; when that timer fires a new socket and a new session exist.
C4_StaleHeartbeatReconnects ==
    [][/\ (/\ last'.op = "HeartbeatTick"
           /\ last'.arg = "stale"
           /\ hook[TickInst].isMounted
           /\ IsOpen(Cur, hook[TickInst].wsRef)
           /\ hook[TickInst].broadcasterIdRef # "none")
          => /\ socks'[hook[TickInst].wsRef].rs \notin {"connecting", "open"}
             /\ hook[TickInst].pcRef # 0 => pcs'[hook[TickInst].pcRef].cs \in {"closed", "unused"}
             /\ \E n \in 1..Len(timers') : timers'[n].kind = "reconnect"
       /\ (/\ last'.op = "TimerFire"
           /\ last'.arg = "reconnect"
           /\ \E j \in Inst : hook[j].phase = "mounted")
          => /\ store'.ws # 0
             /\ socks'[store'.ws].rs = "connecting"
             /\ store'.pc # 0
             /\ pcs'[store'.pc].cs = "new"]_vars

\* C5: reconnect() called by the consumer while the entry is Failed or
\* Disconnected tears the old session down and schedules the re-creation;
\* when that timer fires on an entry still Failed or Disconnected, the entry
\* becomes Connecting with a new socket and a new session.
C5_ManualReconnectResumes ==
    [][/\ (/\ last'.op = "Reconnect"
           /\ store.connectionState \in {"failed", "disconnected"})
          => /\ store.pc # 0 => pcs'[store.pc].cs \in {"closed", "unused"}
             /\ store.ws # 0 => socks'[store.ws].rs \notin {"connecting", "open"}
             /\ \E n \in 1..Len(timers') : timers'[n].kind = "reconnect"
       /\ (/\ last'.op = "TimerFire"
           /\ last'.arg = "reconnect"
           /\ store.connectionState \in {"failed", "disconnected"}
           /\ \E j \in Inst : hook[j].phase = "mounted")
          => /\ store'.connectionState = "connecting"
             /\ store'.ws # 0
             /\ socks'[store'.ws].rs = "connecting"
             /\ store'.pc # 0
             /\ pcs'[store'.pc].cs = "new"]_vars

\* a socket is created in the step
SocketCreated == \E k \in SockId : socks[k].rs # "connecting" /\ socks'[k].rs = "connecting"

\* C6: the entry is Failed with the retry-cap error only after 5 retries
\* have failed, and while it is Failed no socket is created unless the
\* consumer calls reconnect() or mounts again.
C6_NoRetryAfterCap ==
    [][/\ (store'.connectionState = "failed" /\ store'.error = "max")
          => store'.reconnectAttempts = maxReconnectAttempts
       /\ (/\ store.connectionState = "failed"
           /\ store.error = "max"
           /\ last'.op \notin {"Reconnect", "Mount"})
          => ~SocketCreated]_vars

\* positions of the wire that carry local candidate n
SentAt(n) == {x \in 1..Len(wire) : wire[x].type = "ice" /\ wire[x].cand = n}
Buffered == {n \in 1..Len(cands) : cands[n]}

\* C7: once an offer has revealed the remote id and has been handled, every
\* local candidate that was buffered before it has been sent exactly once,
\* stamped with a remote id, and the buffered candidates went out in their
\* generation order.
C7_BufferedCandidatesFlushed ==
    (store.broadcasterId # "none" /\ tasks = <<>>) =>
        /\ \A n \in Buffered :
              /\ Cardinality(SentAt(n)) = 1
              /\ \A x \in SentAt(n) : wire[x].to \in Peers
        /\ \A n1, n2 \in Buffered : \A x1 \in SentAt(n1), x2 \in SentAt(n2) :
              n1 < n2 => x1 < x2

Answers == {x \in 1..Len(wire) : wire[x].type = "answer"}

\* C8: every answer on the wire answers an offer whose remote description
\* was applied, carries the configured viewer id as `from` and the sender of
\* that offer as `to`.
C8_AnswerAfterRemoteOffer ==
    \A x \in Answers :
        /\ wire[x].to = wire[x].re
        /\ \E i \in Inst : hook[i].phase = "mounted" /\ wire[x].from = viewer_id(hook[i].config)

\* C9: a session that reported 'failed' twice within the debounce delay is
\* reconnected at most once by the debounce timers, and once they have all
\* fired on the failed session that one reconnect has been performed: the
\* failed session is closed.
C9_OneReconnectPerFailure ==
    \A p \in PcId :
        pcs[p].fl = 2 =>
            /\ pcs[p].rc <= 1
            /\ pcs[p].rc = 1 => pcs[p].cs = "closed"

\* the step supplies a config that differs from the entry's in viewer id or
\* signaling URL while the entry is Connected
ConfigChanged ==
    /\ last'.op = "ConfigChange"
    /\ store.connectionState = "connected"
    /\ store.lastConfig # "none"
    /\ \/ viewer_id(store.lastConfig) # viewer_id(last'.arg)
       \/ signaling_url(store.lastConfig) # signaling_url(last'.arg)

\* C10: a config change on a Connected entry closes the old socket and the
\* old session, stops the old heartbeat, forgets the remote id and the
\* candidate queue, and the session and socket that exist after it were
\* created with the new config.
C10_ConfigChangeTearsDown ==
    [][ConfigChanged
       => /\ store.ws # 0 => socks'[store.ws].rs \notin {"connecting", "open"}
          /\ store.pc # 0 => pcs'[store.pc].cs \in {"closed", "unused"}
          /\ store.heartbeatInterval # 0 => ~beats'[store.heartbeatInterval].active
          /\ store'.broadcasterId = "none"
          /\ arrays'[store'.localCandidateQueue] = <<>>
          /\ store'.pc # 0 /\ pcs'[store'.pc].cfg = last'.arg
          /\ store'.ws # 0 /\ socks'[store'.ws].cfg = last'.arg]_vars

\* a session is created in the step
SessionCreated == \E p \in PcId : pcs[p].cs = "unused" /\ pcs'[p].cs # "unused"

\* C11: a timer that was pending when cleanup() tore a non-persistent entry
\* down does nothing when it fires later: it opens no socket, creates no
\* session and leaves the entry's state as it is.
C11_ReleaseCancelsTimers ==
    [][(last'.op = "TimerFire" /\ last'.orphan)
       => /\ ~SocketCreated
          /\ ~SessionCreated
          /\ store'.connectionState = store.connectionState]_vars

\* C12: dispose-all empties the table, stops the entry's heartbeat and closes
\* its socket and session, and afterwards no handler or timer of the disposed
\* entry opens a socket or creates a session.
C12_DisposeAllIsFinal ==
    [][/\ last'.op = "CleanupAll"
          => /\ store'.table = "cleared"
             /\ store.heartbeatInterval # 0 => ~beats'[store.heartbeatInterval].active
             /\ store.ws # 0 => socks'[store.ws].rs \notin {"connecting", "open"}
             /\ store.pc # 0 => pcs'[store.pc].cs \in {"closed", "unused"}
       /\ store.table = "cleared" => ~SocketCreated /\ ~SessionCreated]_vars
\* C13: a mount on a key whose entry is Connecting or Connected with the same
\* config opens no socket and creates no session, and the entry keeps the
\* socket and the session it had, the session in the state it was in.
C13_SecondAcquireReuses ==
    [][(/\ last'.op = "Mount"
        /\ store.table = "present"
        /\ store.lastConfig = last'.arg
        /\ store.connectionState \in {"connecting", "connected"})
       => /\ ~SocketCreated
          /\ ~SessionCreated
          /\ store'.ws = store.ws
          /\ store'.pc = store.pc
          /\ store.pc # 0 => pcs'[store.pc].cs = pcs[store.pc].cs]_vars

\* C14: whenever a step changes the entry's state, media or error, every
\* subscriber of the entry holds the new values after the step, also when the
\* callback of one subscriber raises.
C14_DeliveryIsolated ==
    [][Triple(store') # Triple(store)
       => \A j \in store'.subscribers : hook'[j].seen = Triple(store')]_vars


\* C15: when a consumer mounts, the values it holds at the end of its
\* subscribe effect are the state, media and error the entry had at that
\* moment; on a Connected entry they are Connected and the entry's stream.
C15_SubscribeDeliversCurrent ==
    [][last'.op = "Mount"
       => /\ hook'[last'.obj].initial = Triple(store)
          /\ (store.connectionState = "connected" /\ store.videoStream # 0)
             => /\ hook'[last'.obj].initial.state = "connected"
                /\ hook'[last'.obj].initial.stream = store.videoStream]_vars

\* C15: a consumer has just mounted on an entry that was Connected with a
\* stream, and received both from its subscribe effect.
C15_JoinedConnected ==
    /\ last.op = "Mount"
    /\ hook[last.obj].initial.state = "connected"
    /\ hook[last.obj].initial.stream # 0


Candidates == {x \in 1..Len(wire) : wire[x].type = "ice"}

\* C16: two candidates of one session are on the wire in the order in which
\* the session generated them (candidates are numbered as they are generated).
C16_CandidatesInOrder ==
    \A x1, x2 \in Candidates :
        (wire[x1].pc = wire[x2].pc /\ wire[x1].cand < wire[x2].cand) => x1 < x2


\* C17: the entry's candidate queue holds something only while the entry's
\* remote peer id is unset: once the remote id is known and no offer is still
\* being processed (whether its processing succeeded or failed), it is empty.
C17_QueueOnlyWhileUnknown ==
    (store.broadcasterId # "none" /\ tasks = <<>>)
        => arrays[store.localCandidateQueue] = <<>>


\* C18: the close event of a socket that the hook closed itself (ws.close()
\* in cleanup(), in the config-change teardown or in dispose-all) does not
\* increment the reconnect counter and schedules no connection attempt.
C18_IntentionalCloseNoRetry ==
    [][(last'.op = "WsClose" /\ last'.arg = "closing")
       => /\ store'.reconnectAttempts = store.reconnectAttempts
          /\ Len(timers') = Len(timers)]_vars


\* C19: when a socket close schedules the n-th automatic attempt, n being
\* the reconnect counter after its increment, the delay of the retry timer
\* is reconnectDelay * n.
C19_LinearBackoff ==
    [][(last'.op = "WsClose" /\ Len(timers') = Len(timers) + 1)
       => timers'[Len(timers')].delay = reconnectDelay * store'.reconnectAttempts]_vars


\* C20: while the consumer stays mounted, the only step that takes the
\* reconnect counter from a positive value to 0 is a socket that opens, and
\* that step leaves the entry Connecting; the teardown of a recovery
\* (reconnect() called by a debounce timer) keeps the counter.
C20_CounterResetOnlyOnOpen ==
    [][(store.reconnectAttempts > 0 /\ store'.reconnectAttempts = 0)
       => (last'.op = "WsOpen" /\ store'.connectionState = "connecting")]_vars


\* C21: a step of the offer handler that starts a heartbeat interval has put
\* the answer on the signaling link in the same step.
C21_HeartbeatAfterAnswer ==
    [][(/\ last'.op = "TaskAnswer"
        /\ store'.heartbeatInterval # 0
        /\ store'.heartbeatInterval # store.heartbeatInterval)
       => /\ Len(wire') > Len(wire)
          /\ \E x \in (Len(wire) + 1)..Len(wire') : wire'[x].type = "answer"]_vars


\* C22: when setRemoteDescription, createAnswer or setLocalDescription
\* rejects, the step that handles the rejection publishes Failed with the
\* error to every subscriber and starts a reconnect attempt (a timer is set,
\* or a socket or a session is created).
C22_OfferFailureReconnects ==
    [][(last'.op \in {"TaskSrd", "TaskAnswer"} /\ last'.arg = "rejected")
       => /\ store'.connectionState = "failed"
          /\ store'.error = "offer"
          /\ \A j \in store'.subscribers : hook'[j].seen = Triple(store')
          /\ Len(timers') > Len(timers) \/ SocketCreated \/ SessionCreated]_vars


\* C23: when the only consumer of a non-persistent entry unmounts, the entry
\* is Idle afterwards and nothing is left running: no heartbeat interval, no
\* socket connecting or open, no live session, no stream or track, no remote
\* peer id, an empty candidate queue and no error.
C23_ReleaseFreesEverything ==
    [][(last'.op = "Unmount" /\ ~isPersistent
        /\ \A j \in Inst : hook'[j].phase # "mounted")
       => /\ store'.connectionState = "idle"
          /\ store'.heartbeatInterval = 0
          /\ \A h \in BeatId : ~beats'[h].active
          /\ store'.ws = 0
          /\ \A k \in SockId : socks'[k].rs \notin {"connecting", "open"}
          /\ store'.pc = 0
          /\ \A p \in PcId : pcs'[p].cs \in {"unused", "closed"}
          /\ store'.videoStream = 0 /\ store'.videoTracks = {}
          /\ store'.broadcasterId = "none"
          /\ arrays'[store'.localCandidateQueue] = <<>>
          /\ store'.error = "none"]_vars


\* the session state a debounce timer of the given kind waits on
DebouncedState(kind) == IF kind = "connDisconnected" THEN "disconnected" ELSE "failed"

\* C24: while the consumer that owns session p is mounted, (a) the session
\* reporting connected makes the entry Connected, (b) a debounce timer that
\* fires while the session is still failed (after 2 s) or still disconnected
\* (after 3 s) reconnects: the session is torn down and its re-creation is
\* scheduled, and (c) a debounce timer that fires after the session left that
\* state changes nothing.
C24_DebouncedReconnect ==
    [][/\ (/\ last'.op = "ConnState" /\ last'.arg = "connected"
           /\ hook[pcs[last'.obj].inst].phase = "mounted")
          => store'.connectionState = "connected"
       /\ (/\ last'.op = "TimerFire"
           /\ last'.arg \in {"iceFailed", "connFailed", "connDisconnected"}
           /\ hook[pcs[last'.obj].inst].phase = "mounted")
          => IF pcs[last'.obj].cs = DebouncedState(last'.arg)
             THEN /\ pcs'[last'.obj].cs \in {"closed", "unused"}
                  /\ \E n \in 1..Len(timers') : timers'[n].kind = "reconnect"
             ELSE /\ store' = store /\ socks' = socks
                  /\ \A n \in 1..Len(timers') : timers'[n].kind # "reconnect"
                     \/ \E m \in 1..Len(timers) : timers[m] = timers'[n]]_vars


\* C25: a ping that arrives on an open socket is answered in the same step
\* with exactly one pong, sent on the socket the ping arrived on, and the step
\* changes neither the entry nor what any consumer holds.
C25_PingAnsweredSilently ==
    [][last'.op = "WsPing"
       => /\ Len(wire') = Len(wire) + 1
          /\ wire'[Len(wire')].type = "pong"
          /\ hook[socks[last'.obj].inst].wsRef = last'.obj
          /\ store' = store
          /\ \A j \in Inst : hook'[j].seen = hook[j].seen]_vars


\* C26: when the hook is given no config, or a config that lacks a required
\* field, the step opens no socket, creates no session, sets no timer and
\* leaves the entry Idle.
C26_InvalidConfigFailsFast ==
    [][(last'.op = "Mount" /\ ~isValidCameraConfig(last'.arg))
       => /\ ~SocketCreated
          /\ ~SessionCreated
          /\ Len(timers') <= Len(timers)
          /\ store'.connectionState = "idle"]_vars


\* C27: a state change or a track of a session that is not the entry's
\* current session changes neither the entry's published state, media and
\* error nor the set of pending timers.
C27_StaleSessionEventsIgnored ==
    [][(last'.op \in {"ConnState", "IceState", "Track"} /\ last'.obj # store.pc)
       => /\ Triple(store') = Triple(store)
          /\ timers' = timers]_vars


\* C28: once a config change has replaced the entry's config, a step that is
\* not itself a mount or a config change creates sockets only with the
\* entry's config, and every message sent carries the viewer id of that
\* config.
C28_OldConfigNeverUsed ==
    [][(store.lastConfig # "none" /\ last'.op \notin {"Mount", "ConfigChange"})
       => /\ \A k \in SockId :
                (socks[k].rs # "connecting" /\ socks'[k].rs = "connecting")
                    => socks'[k].cfg = store.lastConfig
          /\ \A x \in (Len(wire) + 1)..Len(wire') :
                wire'[x].from = viewer_id(store.lastConfig)]_vars


\* C29: when one consumer of a non-persistent key unmounts while another
\* consumer of the key stays mounted, the entry keeps its socket and its
\* session, and both are in the state they were in.
C29_ReleaseSparesOthers ==
    [][(/\ last'.op = "Unmount" /\ ~isPersistent
        /\ \E j \in Inst : j # last'.obj /\ hook[j].phase = "mounted")
       => /\ store'.ws = store.ws /\ store'.pc = store.pc
          /\ store.ws # 0 => socks'[store.ws].rs = socks[store.ws].rs
          /\ store.pc # 0 => pcs'[store.pc].cs = pcs[store.pc].cs]_vars


\* the service's sockets that are connecting or open
AliveNotifySocks == {k \in NotifySockId : notifySocks[k] \in {"connecting", "open"}}

\* C30: in the notification WebSocketService, the close event of a socket
\* that disconnect() closed, or that the service no longer refers to,
\* leaves the reference to a newer socket in place and sets no reconnect
\* timer; and in every state at most one socket of the service is alive and
\* at most one reconnect timer is pending.
C30_StaleCloseHarmless ==
    /\ [][(/\ last'.op = "NotifyClose"
           /\ \/ notifySocks[last'.obj] = "closing"
              \/ service.ws # last'.obj)
          => /\ service.ws # 0 => service'.ws = service.ws
             /\ notifyTimers' = notifyTimers]_vars
    /\ [](Cardinality(AliveNotifySocks) <= 1 /\ Cardinality(notifyTimers) <= 1)

====
